---- MODULE Spec2Model ----
(***************************************************************************)
(* Model of the projects service: the form-version delete route and the    *)
(* plan-config revision-creation route (src/src/routes/form/version/       *)
(* delete.js), the permission tables (src/src/permissions/constants.js)    *)
(* and Project.searchText (src/src/models/project.js).                     *)
(***************************************************************************)
EXTENDS Integers, Sequences, FiniteSets, TLC

VARIABLES
    forms,        \* rows of the forms table (models.Form)
    planConfigs,  \* rows of the plan_config table (models.PlanConfig)
    req,          \* the request each connection is serving
    nreq,         \* requests accepted so far
    MAX_REVISION_NUMBER,  \* config.get('MAX_REVISION_NUMBER')
    user,         \* the caller a permission is evaluated for
    granted,      \* the permissions found to hold for the caller
    defaultRole,  \* the default project role resolved for the caller
    search,       \* a call of Project.searchText and its result
    shell         \* the commands handed to child_process.exec, in order

routeVars == <<forms, planConfigs, req, nreq, MAX_REVISION_NUMBER, shell>>
permVars == <<user, granted, defaultRole>>
vars == <<routeVars, permVars, search, shell>>

(***************************************************************************)
(* Bounds of the model.                                                    *)
(***************************************************************************)
\* the largest configured MAX_REVISION_NUMBER
MaxRevisionLimit == 2
\* the number of requests served in one behaviour
MaxRequests == 2
\* the number of Form revisions of ("k1", 1) at the start
MaxFormRevisions == 2

NoCaller == [roles |-> <<>>, scopes |-> {}, member |-> "none"]
NotChecked == [checked |-> FALSE, names |-> {}]
NoSearch ==
    [pc |-> "idle", db |-> [projects |-> {}, members |-> {}, invites |-> {}],
     parameters |-> "none", result |-> [rows |-> <<>>, count |-> 0]]

(***************************************************************************)
(* Request inputs.                                                         *)
(***************************************************************************)
LongKey == "k_aaaaaaaaaaaaaaaaaaaaaaaaaaaaaaaaaaaaaaaaaaaaaaa"
Keys == {"k1", "k2", LongKey}
Versions == {0, 1, 2}
NoPhases == "undefined"
Phases == {"ph1", NoPhases}
Users == {"u1", "u2"}
NoUser == "null"
Procs == {1, 2}
SeqProcs == {1}

\* Joi.string().max(45).required()
KeyMaxLen == 45
ValidKey(key) == Len(key) <= KeyMaxLen
\* Joi.number().integer().positive().required()
ValidVersion(version) == version > 0
\* phases: Joi.object().required()
ValidPhases(phases) == phases # NoPhases

\* validate(schema) of the form-version delete route
FormDeleteSchemaOk(r) == ValidVersion(r.version) /\ ValidKey(r.key)
\* validate(schema) of the plan-config revision-creation route
PlanConfigCreateSchemaOk(r) ==
    ValidVersion(r.version) /\ ValidKey(r.key) /\ ValidPhases(r.phases)

\* the middleware chains the two route modules export; permissions(name) is
\* written as the policy name
Policies == {"form.create", "planConfig.create"}
FormDeleteChain_NoPermissions == <<"validate", "handler">>
FormDeleteChain == <<"validate", "form.create", "handler">>
PlanConfigCreateChain == <<"validate", "planConfig.create", "handler">>

\* app.get('/v4/projects/index', (req, res) => ...): the handler alone
ProjectsIndexChain == <<"handler">>
\* app.get('/v4/projects/eslog', (req, res) => ...): the handler alone
ProjectsEslogChain == <<"handler">>

Chain(r) ==
    IF r.route = "formVersionDelete" THEN FormDeleteChain
    ELSE IF r.route = "projectsIndex" THEN ProjectsIndexChain
    ELSE IF r.route = "projectsEslog" THEN ProjectsEslogChain
    ELSE PlanConfigCreateChain

(***************************************************************************)
(* The tables.  Both models are paranoid: destroy sets deletedAt and the   *)
(* finders, update and destroy see only the rows whose deletedAt is null.  *)
(***************************************************************************)
Live(table) == {row \in table : ~row.deleted}

\* where: { key: req.params.key, version: req.params.version }
WhereKeyVersion(row, key, version) == row.key = key /\ row.version = version

FindAll(table, key, version) ==
    {row \in Live(table) : WhereKeyVersion(row, key, version)}

Max(S) == CHOOSE x \in S : \A y \in S : y <= x
Min(S) == CHOOSE x \in S : \A y \in S : x <= y

\* order: [['revision', 'DESC']]; rows of equal revision in id order
RECURSIVE OrderByRevisionDesc(_)
OrderByRevisionDesc(rows) ==
    IF rows = {} THEN <<>>
    ELSE LET top == Max({row.revision : row \in rows})
             tid == Max({row.id : row \in {x \in rows : x.revision = top}})
             first == CHOOSE row \in rows : row.revision = top /\ row.id = tid
         IN <<first>> \o OrderByRevisionDesc(rows \ {first})

\* id: autoIncrement
NextId(table) == IF table = {} THEN 1 ELSE Max({row.id : row \in table}) + 1


(***************************************************************************)
(* Requests.                                                               *)
(***************************************************************************)
NoResp == [via |-> "none", status |-> 0, entity |-> 0]
\* next(err): the error goes to the error middleware
NextErr(status) == [via |-> "next", status |-> status, entity |-> 0]
\* res.status(status).end() / res.status(status).json(entity)
Res(status, entity) == [via |-> "res", status |-> status, entity |-> entity]

IdleReq ==
    [route |-> "none", key |-> "k1", version |-> 0, phases |-> NoPhases,
     q |-> "undefined",
     userId |-> NoUser, grants |-> {}, stage |-> 0, pc |-> "idle",
     found |-> <<>>, resp |-> NoResp, trace |-> <<>>,
     pre |-> [forms |-> {}, planConfigs |-> {}]]

Routes == {"formVersionDelete", "planConfigRevisionCreate"}

\* the database operations of the two handlers
DbOps == {"findAll", "update", "destroy", "deleteOldestRevision", "create"}

Step(r, name) == [r EXCEPT !.trace = Append(@, name)]
\* a middleware calls next(): the chain moves to its next element
CallNext(r) ==
    [r EXCEPT !.stage = @ + 1,
              !.pc = IF Chain(r)[r.stage + 1] = "handler" THEN "findAll" ELSE "mw"]
Fail(r, status) == [r EXCEPT !.resp = NextErr(status), !.pc = "done"]

At(p, what) ==
    /\ req[p].pc = "mw"
    /\ req[p].stage \in 1..Len(Chain(req[p]))
    /\ Chain(req[p])[req[p].stage] \in what

InHandler(p, route, pc) ==
    /\ req[p].route = route
    /\ req[p].stage \in 1..Len(Chain(req[p]))
    /\ Chain(req[p])[req[p].stage] = "handler"
    /\ req[p].pc = pc

\* a request arrives and express enters the route's chain
Accept(p, route, key, version, userId, grants, phases) ==
    /\ req[p].pc \in {"idle", "done"}
    /\ nreq < MaxRequests
    /\ LET r == [IdleReq EXCEPT !.route = route, !.key = key,
                     !.version = version, !.phases = phases,
                     !.userId = userId, !.grants = grants,
                     !.stage = 1,
                     !.pre = [forms |-> forms, planConfigs |-> planConfigs]]
       IN req' = [req EXCEPT ![p] =
                     [r EXCEPT !.pc = IF Chain(r)[1] = "handler"
                                      THEN "findAll" ELSE "mw"]]
    /\ nreq' = nreq + 1
    /\ UNCHANGED <<forms, planConfigs, MAX_REVISION_NUMBER, permVars, search, shell>>

Begin(p) ==
    \E route \in Routes, key \in Keys, version \in Versions,
       userId \in Users, grants \in SUBSET Policies :
       \E phases \in (IF route = "formVersionDelete" THEN {NoPhases} ELSE Phases) :
          Accept(p, route, key, version, userId, grants, phases)

\* validate(schema)
Validate(p) ==
    /\ At(p, {"validate"})
    /\ LET r == Step(req[p], "validate")
           ok == IF r.route = "formVersionDelete" THEN FormDeleteSchemaOk(r)
                 ELSE PlanConfigCreateSchemaOk(r)
       IN req' = [req EXCEPT ![p] = IF ok THEN CallNext(r) ELSE Fail(r, 400)]
    /\ UNCHANGED <<forms, planConfigs, nreq, MAX_REVISION_NUMBER, permVars, search, shell>>

\* permissions(policy)
Permissions(p) ==
    /\ At(p, Policies)
    /\ LET policy == Chain(req[p])[req[p].stage]
           r == Step(req[p], policy)
       IN req' = [req EXCEPT ![p] =
                     IF policy \in r.grants THEN CallNext(r) ELSE Fail(r, 403)]
    /\ UNCHANGED <<forms, planConfigs, nreq, MAX_REVISION_NUMBER, permVars, search, shell>>

(***************************************************************************)
(* The form-version delete handler.                                        *)
(***************************************************************************)
IsEmptyResult_Never(rows) == Len(rows) < 0

\* allRevision.length === 0 / planConfigs.length === 0
IsEmptyResult(rows) == Len(rows) = 0

\* models.Form.findAll({ where: { key, version } })
FormFindAll(p) ==
    /\ InHandler(p, "formVersionDelete", "findAll")
    /\ LET r == Step(req[p], "findAll")
           allRevision == OrderByRevisionDesc(FindAll(forms, r.key, r.version))
       IN req' = [req EXCEPT ![p] =
                     IF IsEmptyResult(allRevision)
                     THEN Fail([r EXCEPT !.found = allRevision], 404)
                     ELSE [r EXCEPT !.found = allRevision, !.pc = "update"]]
    /\ UNCHANGED <<forms, planConfigs, nreq, MAX_REVISION_NUMBER, permVars, search, shell>>

\* models.Form.update({ deletedBy: req.authUser.userId }, { where: { key, version } })
FormUpdateRows(table, key, version, userId) ==
    {IF ~row.deleted /\ WhereKeyVersion(row, key, version)
     THEN [row EXCEPT !.deletedBy = userId] ELSE row : row \in table}

FormUpdate(p) ==
    /\ InHandler(p, "formVersionDelete", "update")
    /\ forms' = FormUpdateRows(forms, req[p].key, req[p].version, req[p].userId)
    /\ req' = [req EXCEPT ![p] = [Step(@, "update") EXCEPT !.pc = "destroy"]]
    /\ UNCHANGED <<planConfigs, nreq, MAX_REVISION_NUMBER, permVars, search, shell>>

FormDestroyRows_KeyOnly(table, key, version) ==
    {IF ~row.deleted /\ row.key = key
     THEN [row EXCEPT !.deleted = TRUE] ELSE row : row \in table}

\* models.Form.destroy({ where: { key, version } })
FormDestroyRows(table, key, version) ==
    {IF ~row.deleted /\ WhereKeyVersion(row, key, version)
     THEN [row EXCEPT !.deleted = TRUE] ELSE row : row \in table}

FormDestroy(p) ==
    /\ InHandler(p, "formVersionDelete", "destroy")
    /\ forms' = FormDestroyRows(forms, req[p].key, req[p].version)
    /\ req' = [req EXCEPT ![p] = [Step(@, "destroy") EXCEPT !.pc = "end"]]
    /\ UNCHANGED <<planConfigs, nreq, MAX_REVISION_NUMBER, permVars, search, shell>>

\* res.status(204).end()
FormEnd(p) ==
    /\ InHandler(p, "formVersionDelete", "end")
    /\ req' = [req EXCEPT ![p] =
                  [Step(@, "end") EXCEPT !.resp = Res(204, 0), !.pc = "done"]]
    /\ UNCHANGED <<forms, planConfigs, nreq, MAX_REVISION_NUMBER, permVars, search, shell>>

(***************************************************************************)
(* The plan-config revision-creation handler.                              *)
(***************************************************************************)
NeedsEviction_Gt(n) == n > MAX_REVISION_NUMBER
NeedsEviction_OneEarly(n) == n >= MAX_REVISION_NUMBER - 1

\* planConfigs.length >= config.get('MAX_REVISION_NUMBER')
NeedsEviction(n) == n >= MAX_REVISION_NUMBER

\* planConfigs[0] of the rows ordered by revision DESC
Newest(found) == found[1]

NextRevision_Same(planConfig) == planConfig.revision

\* const revisison = planConfig.revision + 1
NextRevision(planConfig) == planConfig.revision + 1

\* models.PlanConfig.findAll({ where: { key, version }, order: [['revision', 'DESC']] })
PlanConfigFindAll(p) ==
    /\ InHandler(p, "planConfigRevisionCreate", "findAll")
    /\ LET r == Step(req[p], "findAll")
           found == OrderByRevisionDesc(FindAll(planConfigs, r.key, r.version))
           s == [r EXCEPT !.found = found]
       IN req' = [req EXCEPT ![p] =
                     IF NeedsEviction(Len(found))
                     THEN [s EXCEPT !.pc = "deleteOldestRevision"]
                     ELSE IF IsEmptyResult(found) THEN Fail(s, 404)
                     ELSE [s EXCEPT !.pc = "create"]]
    /\ UNCHANGED <<forms, planConfigs, nreq, MAX_REVISION_NUMBER, permVars, search, shell>>

\* models.PlanConfig.deleteOldestRevision(userId, key, version): the live row of
\* (key, version) with the lowest revision is marked deletedBy and destroyed
OldestRevision(table, key, version) ==
    LET rows == FindAll(table, key, version)
        low == Min({row.revision : row \in rows})
        lid == Min({row.id : row \in {x \in rows : x.revision = low}})
    IN CHOOSE row \in rows : row.revision = low /\ row.id = lid

DeleteOldestRevision(table, userId, key, version) ==
    LET oldest == OldestRevision(table, key, version)
    IN (table \ {oldest}) \cup
          {[oldest EXCEPT !.deletedBy = userId, !.deleted = TRUE]}

PlanConfigDeleteOldest(p) ==
    /\ InHandler(p, "planConfigRevisionCreate", "deleteOldestRevision")
    /\ LET r == Step(req[p], "deleteOldestRevision")
       IN IF FindAll(planConfigs, r.key, r.version) = {}
          THEN \* findOne resolves null and the chain rejects with a TypeError
               /\ req' = [req EXCEPT ![p] = Fail(r, 500)]
               /\ UNCHANGED planConfigs
          ELSE /\ planConfigs' =
                     DeleteOldestRevision(planConfigs, r.userId, r.key, r.version)
               /\ req' = [req EXCEPT ![p] = [r EXCEPT !.pc = "create"]]
    /\ UNCHANGED <<forms, nreq, MAX_REVISION_NUMBER, permVars, search, shell>>

\* the entity handed to models.PlanConfig.create
NewEntity(r, id) ==
    [id |-> id, key |-> r.key, version |-> r.version,
     revision |-> NextRevision(Newest(r.found)), phases |-> r.phases,
     createdBy |-> r.userId, deleted |-> FALSE, deletedBy |-> NoUser]

\* the insert of the plan_config table: the id is the only key of a row, so
\* a row is stored whatever rows the table already holds
Insert(table, entity) == table \cup {entity}

\* models.PlanConfig.create(entity)
PlanConfigCreate(p) ==
    /\ InHandler(p, "planConfigRevisionCreate", "create")
    /\ LET r == Step(req[p], "create")
       IN IF r.found = <<>>
          THEN \* planConfigs[0] is undefined: reading .revision throws a TypeError
               /\ req' = [req EXCEPT ![p] = Fail(r, 500)]
               /\ UNCHANGED planConfigs
          ELSE LET entity == NewEntity(r, NextId(planConfigs))
               IN /\ planConfigs' = Insert(planConfigs, entity)
                  /\ req' = [req EXCEPT ![p] =
                                [r EXCEPT !.resp = Res(0, entity.id), !.pc = "json"]]
    /\ UNCHANGED <<forms, nreq, MAX_REVISION_NUMBER, permVars, search, shell>>

\* res.status(201).json(util.wrapResponse(req.id, createdEntity, 1, 201))
PlanConfigRespond(p) ==
    /\ InHandler(p, "planConfigRevisionCreate", "json")
    /\ req' = [req EXCEPT ![p] =
                  [Step(@, "json") EXCEPT !.resp = Res(201, @.entity), !.pc = "done"]]
    /\ UNCHANGED <<forms, planConfigs, nreq, MAX_REVISION_NUMBER, permVars, search, shell>>

(***************************************************************************)
(* The initial tables and the specification in which the requests are      *)
(* served one at a time.                                                   *)
(***************************************************************************)
PlanConfigRow(id, key, version, revision) ==
    [id |-> id, key |-> key, version |-> version, revision |-> revision,
     phases |-> "ph0", createdBy |-> "u1", deleted |-> FALSE, deletedBy |-> NoUser]

FormRow(id, key, version, revision) ==
    [id |-> id, key |-> key, version |-> version, revision |-> revision,
     deleted |-> FALSE, deletedBy |-> NoUser]

\* n revisions of ("k1", 1), one revision of ("k1", 2) and of ("k2", 1), none of ("k2", 2)
InitPlanConfigs(n) ==
    {PlanConfigRow(i, "k1", 1, i) : i \in 1..n}
        \cup {PlanConfigRow(n + 1, "k1", 2, 1), PlanConfigRow(n + 2, "k2", 1, 1)}

InitForms(n) ==
    {FormRow(i, "k1", 1, i) : i \in 1..n}
        \cup {FormRow(n + 1, "k1", 2, 1), FormRow(n + 2, "k2", 1, 1)}

Init ==
    /\ MAX_REVISION_NUMBER \in 1..MaxRevisionLimit
    /\ \E n \in 0..MAX_REVISION_NUMBER : planConfigs = InitPlanConfigs(n)
    /\ forms = InitForms(MaxFormRevisions)
    /\ req = [p \in Procs |-> IdleReq]
    /\ nreq = 0
    /\ shell = <<>>
    /\ user = NoCaller /\ granted = NotChecked /\ defaultRole = "unresolved"
    /\ search = NoSearch

Serve(p) ==
    \/ Begin(p)
    \/ Validate(p)
    \/ Permissions(p)
    \/ FormFindAll(p)
    \/ FormUpdate(p)
    \/ FormDestroy(p)
    \/ FormEnd(p)
    \/ PlanConfigFindAll(p)
    \/ PlanConfigDeleteOldest(p)
    \/ PlanConfigCreate(p)
    \/ PlanConfigRespond(p)

Next == \E p \in SeqProcs : Serve(p)

Spec == Init /\ [][Next]_vars

(***************************************************************************)
(* Properties of the two routes, requests served one at a time (Spec).     *)
(***************************************************************************)
Ids(table) == {row.id : row \in table}
RowOf(table, id) == CHOOSE row \in table : row.id = id
Revisions(rows) == {row.revision : row \in rows}
Has(r, ops) == \E i \in 1..Len(r.trace) : r.trace[i] \in ops

\* the request accepted by a handler that answered with res
Succeeded(p, route) ==
    req[p].route = route /\ req[p].pc = "done" /\ req[p].resp.via = "res"

\* the live rows the request's (key, version) had when the request arrived
PreLive(r, table) == FindAll(table, r.key, r.version)

\* C1: served one at a time from a state with at most MAX_REVISION_NUMBER live
\* revisions, no (key, version) ever has more than MAX_REVISION_NUMBER live
\* PlanConfig revisions.
C1_LiveRevisionsBounded ==
    \A key \in Keys, version \in Versions :
        Cardinality(FindAll(planConfigs, key, version)) <= MAX_REVISION_NUMBER

\* a revision was created for a (key, version) that was full
C1_Witness ==
    \E p \in Procs :
        /\ Succeeded(p, "planConfigRevisionCreate")
        /\ Cardinality(PreLive(req[p], req[p].pre.planConfigs)) = MAX_REVISION_NUMBER
        /\ Cardinality(PreLive(req[p], planConfigs)) = MAX_REVISION_NUMBER
        /\ nreq = MaxRequests

\* C2: a successful revision creation adds exactly one row, of the request's
\* (key, version), numbered one more than the highest live revision and above
\* every live revision; no request changes the revision or the phases of a row
\* that already exists.
C2_RevisionsAppendOnly ==
    \A p \in Procs :
        LET r == req[p]
            pre == r.pre.planConfigs
            added == {row \in planConfigs : row.id \notin Ids(pre)}
        IN /\ r.route = "planConfigRevisionCreate" =>
                \A old \in pre :
                    \E row \in planConfigs :
                        /\ row.id = old.id
                        /\ row.revision = old.revision
                        /\ row.phases = old.phases
           /\ Succeeded(p, "planConfigRevisionCreate") =>
                /\ Cardinality(added) = 1
                /\ Cardinality(planConfigs) = Cardinality(pre) + 1
                /\ \A new \in added :
                      /\ new.key = r.key /\ new.version = r.version
                      /\ ~new.deleted
                      /\ new.phases = r.phases
                      /\ new.id = r.resp.entity
                      /\ new.revision = Max(Revisions(PreLive(r, pre))) + 1
                      /\ \A row \in PreLive(r, planConfigs) \ {new} :
                            row.revision < new.revision

\* a revision was created beside an older live revision
C2_Witness ==
    \E p \in Procs :
        /\ Succeeded(p, "planConfigRevisionCreate")
        /\ Cardinality(PreLive(req[p], planConfigs)) >= 2
        /\ req[p].phases = "ph1"

\* C5: in both routes a database operation runs only after validate passed and
\* then the route's permission check passed; a request that fails either one
\* performs no database operation and leaves the tables as they were.
SchemaOk(r) ==
    IF r.route = "formVersionDelete" THEN FormDeleteSchemaOk(r)
    ELSE PlanConfigCreateSchemaOk(r)

RoutePolicy(r) ==
    IF r.route = "formVersionDelete" THEN "form.create" ELSE "planConfig.create"

C5_DatabaseAfterChecks ==
    \A p \in Procs :
        LET r == req[p]
        IN r.pc # "idle" =>
            /\ \A i \in 1..Len(r.trace) :
                  r.trace[i] \in DbOps =>
                      /\ i > 2
                      /\ r.trace[1] = "validate"
                      /\ r.trace[2] = RoutePolicy(r)
                      /\ SchemaOk(r)
                      /\ RoutePolicy(r) \in r.grants
            /\ (~SchemaOk(r) \/ RoutePolicy(r) \notin r.grants) =>
                  /\ ~Has(r, DbOps)
                  /\ forms = r.pre.forms
                  /\ planConfigs = r.pre.planConfigs
                  /\ r.pc = "done" => r.resp.via = "next"

\* one request was refused by the permission check after another one wrote
C5_Witness ==
    \E p \in Procs :
        /\ req[p].pc = "done"
        /\ req[p].resp = NextErr(403)
        /\ \E row \in forms : row.deleted

\* C6: when the requested (key, version) has no live row, either handler ends
\* with a 404 error passed to next, sends no success response and leaves every
\* row as it was.
C6_NotFound ==
    \A p \in Procs :
        LET r == req[p]
            table == IF r.route = "formVersionDelete" THEN r.pre.forms
                     ELSE r.pre.planConfigs
        IN (Has(r, {"findAll"}) /\ PreLive(r, table) = {}) =>
            /\ r.pc = "done"
            /\ r.resp = NextErr(404)
            /\ ~Has(r, DbOps \ {"findAll"})
            /\ forms = r.pre.forms
            /\ planConfigs = r.pre.planConfigs

\* both routes answered 404: a form-version delete after a revision creation
C6_Witness ==
    \E p \in Procs :
        /\ req[p].route = "formVersionDelete"
        /\ req[p].resp = NextErr(404)
        /\ req[p].pre.forms # {}
        /\ PreLive(req[p], req[p].pre.forms) = {}

\* C7: a successful form-version delete of (key, version) by user u leaves no
\* live Form row of that (key, version), marks each row it deleted with
\* deletedBy = u, leaves every other Form row as it was and answers 204
\* without a body.
C7_FormVersionDelete ==
    \A p \in Procs :
        LET r == req[p]
            pre == r.pre.forms
        IN Succeeded(p, "formVersionDelete") =>
            /\ r.resp = Res(204, 0)
            /\ PreLive(r, pre) # {}
            /\ PreLive(r, forms) = {}
            /\ Cardinality(forms) = Cardinality(pre)
            /\ \A old \in pre :
                  IF old \in PreLive(r, pre)
                  THEN [old EXCEPT !.deleted = TRUE, !.deletedBy = r.userId] \in forms
                  ELSE old \in forms
            /\ planConfigs = r.pre.planConfigs

\* user u2 deleted a form version of two revisions
C7_Witness ==
    \E p \in Procs :
        /\ Succeeded(p, "formVersionDelete")
        /\ req[p].userId = "u2"
        /\ Cardinality(PreLive(req[p], req[p].pre.forms)) >= 2
        /\ \E row \in forms : ~row.deleted

\* C8: a revision creation evicts only when the (key, version) has at least
\* MAX_REVISION_NUMBER live revisions, and then exactly the live revision of the
\* lowest number; below MAX_REVISION_NUMBER nothing is deleted; the new
\* revision number is one more than the newest revision before the eviction.
Evicted(r) ==
    {old \in Live(r.pre.planConfigs) : RowOf(planConfigs, old.id).deleted}

C8_EvictOldestAtMax ==
    \A p \in Procs :
        LET r == req[p]
            live == PreLive(r, r.pre.planConfigs)
        IN (r.route = "planConfigRevisionCreate" /\ r.pc \in {"create", "json", "done"}
                /\ Has(r, {"findAll"}) /\ live # {}) =>
            /\ Cardinality(live) >= MAX_REVISION_NUMBER =>
                  /\ Cardinality(Evicted(r)) = 1
                  /\ \A old \in Evicted(r) :
                        /\ old \in live
                        /\ old.revision = Min(Revisions(live))
            /\ Cardinality(live) < MAX_REVISION_NUMBER => Evicted(r) = {}
            /\ r.pc \in {"json", "done"} =>
                  \E new \in planConfigs :
                      /\ new.id = r.resp.entity
                      /\ new.revision = Max(Revisions(live)) + 1

\* the only live revision was evicted, and the new one is numbered after it
C8_Witness ==
    \E p \in Procs :
        /\ Succeeded(p, "planConfigRevisionCreate")
        /\ MAX_REVISION_NUMBER = 1
        /\ Cardinality(Evicted(req[p])) = 1
        /\ \A old \in Evicted(req[p]) :
              RowOf(planConfigs, req[p].resp.entity).revision = old.revision + 1

(***************************************************************************)
(* The permission tables (src/src/permissions/constants.js).               *)
(***************************************************************************)
\* the largest number of Topcoder roles a caller holds
MaxUserRoles == 2
\* the largest number of scopes a token holds
MaxUserScopes == 1

\* USER_ROLE of '../constants', in the order of its keys
USER_ROLE_LIST ==
    <<"administrator", "Connect Manager", "Connect Account Manager",
      "Connect Copilot", "Connect Admin", "Connect Copilot Manager",
      "Business Development Representative", "Presales", "Account Executive",
      "Program Manager", "Solution Architect", "Project Manager",
      "Topcoder User">>

USER_ROLE ==
    [TOPCODER_ADMIN |-> "administrator",
     MANAGER |-> "Connect Manager",
     TOPCODER_ACCOUNT_MANAGER |-> "Connect Account Manager",
     COPILOT |-> "Connect Copilot",
     CONNECT_ADMIN |-> "Connect Admin",
     COPILOT_MANAGER |-> "Connect Copilot Manager",
     BUSINESS_DEVELOPMENT_REPRESENTATIVE |-> "Business Development Representative",
     PRESALES |-> "Presales",
     ACCOUNT_EXECUTIVE |-> "Account Executive",
     PROGRAM_MANAGER |-> "Program Manager",
     SOLUTION_ARCHITECT |-> "Solution Architect",
     PROJECT_MANAGER |-> "Project Manager",
     TOPCODER_USER |-> "Topcoder User"]

PROJECT_MEMBER_ROLE ==
    [MANAGER |-> "manager",
     CUSTOMER |-> "customer",
     COPILOT |-> "copilot",
     ACCOUNT_MANAGER |-> "account_manager",
     PROGRAM_MANAGER |-> "program_manager",
     ACCOUNT_EXECUTIVE |-> "account_executive",
     SOLUTION_ARCHITECT |-> "solution_architect",
     PROJECT_MANAGER |-> "project_manager"]

M2M_SCOPES ==
    [CONNECT_PROJECT_ADMIN |-> "all:connect_project",
     PROJECTS_ALL |-> "all:projects",
     PROJECTS_READ |-> "read:projects",
     PROJECTS_WRITE |-> "write:projects",
     PROJECT_MEMBERS_ALL |-> "all:project-members",
     PROJECT_MEMBERS_READ |-> "read:project-members",
     PROJECT_MEMBERS_WRITE |-> "write:project-members"]

Range(f) == {f[x] : x \in DOMAIN f}

\* ADMIN_ROLES and MANAGER_ROLES of '../constants'
TOPCODER_ROLES_ADMINS == {USER_ROLE.CONNECT_ADMIN, USER_ROLE.TOPCODER_ADMIN}

TOPCODER_ROLES_MANAGERS_AND_ADMINS ==
    TOPCODER_ROLES_ADMINS \cup
        {USER_ROLE.MANAGER, USER_ROLE.TOPCODER_ACCOUNT_MANAGER,
         USER_ROLE.COPILOT_MANAGER,
         USER_ROLE.BUSINESS_DEVELOPMENT_REPRESENTATIVE, USER_ROLE.PRESALES,
         USER_ROLE.ACCOUNT_EXECUTIVE, USER_ROLE.PROGRAM_MANAGER,
         USER_ROLE.SOLUTION_ARCHITECT, USER_ROLE.PROJECT_MANAGER}

SCOPES_PROJECTS_READ ==
    {M2M_SCOPES.CONNECT_PROJECT_ADMIN, M2M_SCOPES.PROJECTS_ALL,
     M2M_SCOPES.PROJECTS_READ}

SCOPES_PROJECTS_WRITE ==
    {M2M_SCOPES.CONNECT_PROJECT_ADMIN, M2M_SCOPES.PROJECTS_ALL,
     M2M_SCOPES.PROJECTS_WRITE}

SCOPES_PROJECT_MEMBERS_READ ==
    {M2M_SCOPES.CONNECT_PROJECT_ADMIN, M2M_SCOPES.PROJECT_MEMBERS_ALL,
     M2M_SCOPES.PROJECT_MEMBERS_READ}

SCOPES_PROJECT_MEMBERS_WRITE ==
    {M2M_SCOPES.CONNECT_PROJECT_ADMIN, M2M_SCOPES.PROJECT_MEMBERS_ALL,
     M2M_SCOPES.PROJECT_MEMBERS_WRITE}

TOPCODER_ROLES_ALL == Range(USER_ROLE)

\* a field of a permission rule: ALL (true), a list, or absent
ALL == [all |-> TRUE, of |-> {}]
Of(list) == [all |-> FALSE, of |-> list]
Absent == [all |-> FALSE, of |-> {}]

Rule(topcoderRoles, projectRoles, scopes) ==
    [topcoderRoles |-> topcoderRoles, projectRoles |-> projectRoles,
     scopes |-> scopes]

CREATE_PROJECT == Rule(ALL, Absent, Of(SCOPES_PROJECTS_WRITE))

CREATE_PROJECT_AS_MANAGER ==
    Rule(Of(TOPCODER_ROLES_MANAGERS_AND_ADMINS), Absent, Of(SCOPES_PROJECTS_WRITE))

READ_PROJECT ==
    Rule(Of(TOPCODER_ROLES_MANAGERS_AND_ADMINS), ALL, Of(SCOPES_PROJECTS_READ))

READ_PROJECT_ANY_Members ==
    Rule(Of(TOPCODER_ROLES_MANAGERS_AND_ADMINS), ALL, Of(SCOPES_PROJECTS_READ))

READ_PROJECT_ANY ==
    Rule(Of(TOPCODER_ROLES_MANAGERS_AND_ADMINS), Absent, Of(SCOPES_PROJECTS_READ))

UPDATE_PROJECT_MEMBER ==
    Rule(Of(TOPCODER_ROLES_MANAGERS_AND_ADMINS), ALL,
         Of(SCOPES_PROJECT_MEMBERS_WRITE))

UPDATE_PROJECT_MEMBER_NON_CUSTOMER ==
    Rule(Of(TOPCODER_ROLES_MANAGERS_AND_ADMINS), Absent,
         Of(SCOPES_PROJECT_MEMBERS_WRITE))

DELETE_PROJECT_MEMBER ==
    Rule(Of(TOPCODER_ROLES_MANAGERS_AND_ADMINS), ALL,
         Of(SCOPES_PROJECT_MEMBERS_WRITE))

DELETE_PROJECT_MEMBER_NON_CUSTOMER ==
    Rule(Of(TOPCODER_ROLES_MANAGERS_AND_ADMINS), Absent,
         Of(SCOPES_PROJECT_MEMBERS_WRITE))

PERMISSION ==
    [CREATE_PROJECT |-> CREATE_PROJECT,
     CREATE_PROJECT_AS_MANAGER |-> CREATE_PROJECT_AS_MANAGER,
     READ_PROJECT |-> READ_PROJECT,
     READ_PROJECT_ANY |-> READ_PROJECT_ANY,
     UPDATE_PROJECT_MEMBER |-> UPDATE_PROJECT_MEMBER,
     UPDATE_PROJECT_MEMBER_NON_CUSTOMER |-> UPDATE_PROJECT_MEMBER_NON_CUSTOMER,
     DELETE_PROJECT_MEMBER |-> DELETE_PROJECT_MEMBER,
     DELETE_PROJECT_MEMBER_NON_CUSTOMER |-> DELETE_PROJECT_MEMBER_NON_CUSTOMER]

PROJECT_TO_TOPCODER_ROLES_MATRIX ==
    [r \in Range(PROJECT_MEMBER_ROLE) |->
        CASE r = PROJECT_MEMBER_ROLE.MANAGER ->
                {USER_ROLE.TOPCODER_ADMIN, USER_ROLE.CONNECT_ADMIN, USER_ROLE.MANAGER}
          [] r = PROJECT_MEMBER_ROLE.SOLUTION_ARCHITECT -> {USER_ROLE.SOLUTION_ARCHITECT}
          [] r = PROJECT_MEMBER_ROLE.PROJECT_MANAGER -> {USER_ROLE.PROJECT_MANAGER}
          [] r = PROJECT_MEMBER_ROLE.PROGRAM_MANAGER -> {USER_ROLE.PROGRAM_MANAGER}
          [] r = PROJECT_MEMBER_ROLE.ACCOUNT_EXECUTIVE -> {USER_ROLE.ACCOUNT_EXECUTIVE}
          [] r = PROJECT_MEMBER_ROLE.ACCOUNT_MANAGER ->
                {USER_ROLE.MANAGER, USER_ROLE.TOPCODER_ACCOUNT_MANAGER,
                 USER_ROLE.BUSINESS_DEVELOPMENT_REPRESENTATIVE, USER_ROLE.PRESALES,
                 USER_ROLE.ACCOUNT_EXECUTIVE, USER_ROLE.PROGRAM_MANAGER,
                 USER_ROLE.SOLUTION_ARCHITECT, USER_ROLE.PROJECT_MANAGER}
          [] r = PROJECT_MEMBER_ROLE.COPILOT -> {USER_ROLE.COPILOT}
          [] r = PROJECT_MEMBER_ROLE.CUSTOMER -> TOPCODER_ROLES_ALL]

Default(topcoderRole, projectRole) ==
    [topcoderRole |-> topcoderRole, projectRole |-> projectRole]

DEFAULT_PROJECT_ROLE ==
    <<Default(USER_ROLE.MANAGER, PROJECT_MEMBER_ROLE.MANAGER),
      Default(USER_ROLE.CONNECT_ADMIN, PROJECT_MEMBER_ROLE.MANAGER),
      Default(USER_ROLE.TOPCODER_ADMIN, PROJECT_MEMBER_ROLE.MANAGER),
      Default(USER_ROLE.TOPCODER_ACCOUNT_MANAGER, PROJECT_MEMBER_ROLE.ACCOUNT_MANAGER),
      Default(USER_ROLE.BUSINESS_DEVELOPMENT_REPRESENTATIVE,
              PROJECT_MEMBER_ROLE.ACCOUNT_MANAGER),
      Default(USER_ROLE.PRESALES, PROJECT_MEMBER_ROLE.ACCOUNT_MANAGER),
      Default(USER_ROLE.COPILOT, PROJECT_MEMBER_ROLE.ACCOUNT_MANAGER),
      Default(USER_ROLE.ACCOUNT_EXECUTIVE, PROJECT_MEMBER_ROLE.ACCOUNT_EXECUTIVE),
      Default(USER_ROLE.PROGRAM_MANAGER, PROJECT_MEMBER_ROLE.PROGRAM_MANAGER),
      Default(USER_ROLE.SOLUTION_ARCHITECT, PROJECT_MEMBER_ROLE.SOLUTION_ARCHITECT),
      Default(USER_ROLE.PROJECT_MANAGER, PROJECT_MEMBER_ROLE.PROJECT_MANAGER),
      Default(USER_ROLE.TOPCODER_USER, PROJECT_MEMBER_ROLE.CUSTOMER)>>

(***************************************************************************)
(* Permission evaluation and default-role resolution.                      *)
(***************************************************************************)
\* util.hasPermission(rule, user, projectMembers): the caller matches the rule
\* by project role (being a member, for ALL), by Topcoder role (holding any
\* role, for ALL) or by scope
hasPermission(rule, u) ==
    LET hasProjectRole ==
            /\ u.member # "none"
            /\ rule.projectRoles.all \/ u.member \in rule.projectRoles.of
        hasTopcoderRole ==
            IF rule.topcoderRoles.all THEN u.roles # <<>>
            ELSE Range(u.roles) \cap rule.topcoderRoles.of # {}
        hasScope == u.scopes \cap rule.scopes.of # {}
    IN hasProjectRole \/ hasTopcoderRole \/ hasScope

\* the scan of DEFAULT_PROJECT_ROLE from TOP to END for the first record which
\* has a Topcoder role of the user
RECURSIVE ScanDefaultRole(_, _)
ScanDefaultRole(u, i) ==
    IF i > Len(DEFAULT_PROJECT_ROLE) THEN "undefined"
    ELSE IF DEFAULT_PROJECT_ROLE[i].topcoderRole \in Range(u.roles)
         THEN DEFAULT_PROJECT_ROLE[i].projectRole
         ELSE ScanDefaultRole(u, i + 1)

getDefaultProjectRole(u) == ScanDefaultRole(u, 1)

PermissionNames == DOMAIN PERMISSION

\* lists of distinct Topcoder roles, as the token carries them
RoleLists ==
    {l \in UNION {[1..n -> Range(USER_ROLE)] : n \in 0..MaxUserRoles} :
        \A i, j \in DOMAIN l : i # j => l[i] # l[j]}

RoleIndex(role) == CHOOSE i \in DOMAIN USER_ROLE_LIST : USER_ROLE_LIST[i] = role

\* one list for each set of roles
RoleSets ==
    {l \in RoleLists :
        \A i, j \in DOMAIN l : i < j => RoleIndex(l[i]) < RoleIndex(l[j])}

ScopeSets ==
    {S \in SUBSET (Range(M2M_SCOPES) \cup {"read:other"}) :
        Cardinality(S) <= MaxUserScopes}

Memberships == {"none"} \cup Range(PROJECT_MEMBER_ROLE)

\* the permissions of the table are evaluated for the caller
CheckPermissions ==
    /\ ~granted.checked
    /\ granted' = [checked |-> TRUE,
                   names |-> {name \in PermissionNames :
                                 hasPermission(PERMISSION[name], user)}]
    /\ UNCHANGED <<routeVars, user, defaultRole, search>>

\* the default project role of the caller is resolved
ResolveDefaultRole ==
    /\ defaultRole = "unresolved"
    /\ defaultRole' = getDefaultProjectRole(user)
    /\ UNCHANGED <<routeVars, user, granted, search>>

InitIdleRoutes ==
    /\ MAX_REVISION_NUMBER = 1
    /\ forms = {} /\ planConfigs = {}
    /\ req = [p \in Procs |-> IdleReq]
    /\ nreq = 0
    /\ shell = <<>>

\* callers with roles, scopes and a membership; their permissions are evaluated
InitPerm ==
    /\ InitIdleRoutes
    /\ \E roles \in RoleSets, scopes \in ScopeSets, member \in Memberships :
          user = [roles |-> roles, scopes |-> scopes, member |-> member]
    /\ granted = NotChecked /\ defaultRole = "unresolved"
    /\ search = NoSearch

NextPerm == CheckPermissions

SpecPerm == InitPerm /\ [][NextPerm]_vars

\* users with their lists of Topcoder roles; their default role is resolved
InitRole ==
    /\ InitIdleRoutes
    /\ \E roles \in RoleLists :
          user = [roles |-> roles, scopes |-> {}, member |-> "none"]
    /\ granted = NotChecked /\ defaultRole = "unresolved"
    /\ search = NoSearch

NextRole == ResolveDefaultRole

SpecRole == InitRole /\ [][NextRole]_vars

\* C3: every record of DEFAULT_PROJECT_ROLE gives a project role that
\* PROJECT_TO_TOPCODER_ROLES_MATRIX allows for the record's Topcoder role
\* (stated for the records of the roles a user holds; the users hold every role).
C3_DefaultRolesAllowed ==
    defaultRole # "unresolved" =>
        \A i \in DOMAIN DEFAULT_PROJECT_ROLE :
            DEFAULT_PROJECT_ROLE[i].topcoderRole \in Range(user.roles) =>
                DEFAULT_PROJECT_ROLE[i].topcoderRole \in
                    PROJECT_TO_TOPCODER_ROLES_MATRIX[DEFAULT_PROJECT_ROLE[i].projectRole]

\* the resolved role is that of the first record, from top to end, whose
\* Topcoder role the user holds
C4_FirstMatch ==
    defaultRole # "unresolved" =>
        LET held == Range(user.roles)
            hits == {i \in DOMAIN DEFAULT_PROJECT_ROLE :
                        DEFAULT_PROJECT_ROLE[i].topcoderRole \in held}
        IN IF hits = {} THEN defaultRole = "undefined"
           ELSE defaultRole = DEFAULT_PROJECT_ROLE[Min(hits)].projectRole

\* the resolved role is the same for every order of the user's roles
C4_OrderIndependent ==
    defaultRole # "unresolved" =>
        \A l \in RoleLists :
            Range(l) = Range(user.roles) =>
                getDefaultProjectRole([user EXCEPT !.roles = l]) = defaultRole

\* the resolved role is allowed by the matrix for a role the user holds
C4_AllowedForUser ==
    (defaultRole # "unresolved" /\
        \E i \in DOMAIN DEFAULT_PROJECT_ROLE :
            DEFAULT_PROJECT_ROLE[i].topcoderRole \in Range(user.roles)) =>
        /\ defaultRole \in DOMAIN PROJECT_TO_TOPCODER_ROLES_MATRIX
        /\ \E role \in Range(user.roles) :
              role \in PROJECT_TO_TOPCODER_ROLES_MATRIX[defaultRole]

\* C4: the default project role is that of the first record of
\* DEFAULT_PROJECT_ROLE whose Topcoder role the user holds, it depends only on
\* the set of the user's roles, and for a user holding a role of the list it
\* is a project role the matrix allows for a role the user holds.
C4_DefaultRoleResolution ==
    C4_FirstMatch /\ C4_OrderIndependent /\ C4_AllowedForUser

\* C10: the decision for READ_PROJECT_ANY, CREATE_PROJECT_AS_MANAGER,
\* UPDATE_PROJECT_MEMBER_NON_CUSTOMER and DELETE_PROJECT_MEMBER_NON_CUSTOMER
\* does not depend on the caller's project membership or project role, and
\* each of them implies its base permission.
NarrowToBase ==
    [READ_PROJECT_ANY |-> "READ_PROJECT",
     CREATE_PROJECT_AS_MANAGER |-> "CREATE_PROJECT",
     UPDATE_PROJECT_MEMBER_NON_CUSTOMER |-> "UPDATE_PROJECT_MEMBER",
     DELETE_PROJECT_MEMBER_NON_CUSTOMER |-> "DELETE_PROJECT_MEMBER"]

C10_MembershipIndependent ==
    granted.checked =>
        \A narrow \in DOMAIN NarrowToBase :
            /\ \A member \in Memberships :
                  hasPermission(PERMISSION[narrow], [user EXCEPT !.member = member])
                      = (narrow \in granted.names)
            /\ narrow \in granted.names => NarrowToBase[narrow] \in granted.names

\* a caller who is no member and holds no scope is granted READ_PROJECT_ANY
\* and with it READ_PROJECT
C10_Witness ==
    /\ granted.checked
    /\ user.member = "none"
    /\ user.scopes = {}
    /\ "READ_PROJECT_ANY" \in granted.names
    /\ "READ_PROJECT" \in granted.names

(***************************************************************************)
(* Project.searchText (src/src/models/project.js).                         *)
(***************************************************************************)
\* the largest number of project_members rows
MaxMembers == 2
\* the largest number of project_member_invites rows
MaxInvites == 2

ProjectRows ==
    {[id |-> 1, status |-> "active", type |-> "app", text |-> "alpha"],
     [id |-> 2, status |-> "draft", type |-> "app", text |-> "beta"]}

MemberRows == {[projectId |-> pid, userId |-> u] : pid \in {1, 2}, u \in {"u1", "u2"}}

InviteRows ==
    {[projectId |-> pid, userId |-> "u1", email |-> "null"] : pid \in {1, 2}}
        \cup {[projectId |-> pid, userId |-> "null", email |-> "e1"] : pid \in {1, 2}}

\* the columns of an outer join that found no row
NullMember == [projectId |-> 0, userId |-> "null"]
NullInvite == [projectId |-> 0, userId |-> "null", email |-> "null"]

\* a filter that parameters.filters does not have
NoFilter == [has |-> FALSE, in |-> {}]
Filter(values) == [has |-> TRUE, in |-> values]

\* 'AND projects.id IN(:id)'; an empty $in list is given the id -1
IdMatches(f, project) ==
    f.id.has => project.id \in (IF f.id.in = {} THEN {-1} ELSE f.id.in)
\* 'AND projects.status IN (:status)'
StatusMatches(f, project) == f.status.has => project.status \in f.status.in
\* 'AND projects.type = :type'
TypeMatches(f, project) == f.type.has => project.type \in f.type.in
\* 'AND projects."projectFullText" ~ lower(:keyword)'
KeywordMatches(f, project) == f.keyword.has => project.text \in f.keyword.in

\* the WHERE clause built from the id, status, type and keyword filters
ProjectQuery(f, project) ==
    /\ IdMatches(f, project)
    /\ StatusMatches(f, project)
    /\ TypeMatches(f, project)
    /\ KeywordMatches(f, project)

\* _.has(filters, 'userId') || _.has(filters, 'email')
HasUserFilter(f) == f.user.has

\* LEFT OUTER JOIN project_members ... LEFT OUTER JOIN project_member_invites
JoinRows(db, project) ==
    LET ms == {m \in db.members : m.projectId = project.id}
        is == {i \in db.invites : i.projectId = project.id}
    IN {<<m, i>> : m \in (IF ms = {} THEN {NullMember} ELSE ms),
                   i \in (IF is = {} THEN {NullInvite} ELSE is)}

\* members."userId" = :userId OR invites."userId" = :userId OR invites."email" = :email
UserQuery(f, row) ==
    \/ row[1].userId # "null" /\ row[1].userId = f.user.userId
    \/ row[2].userId # "null" /\ row[2].userId = f.user.userId
    \/ row[2].email # "null" /\ row[2].email = f.user.email

\* the joined rows of a project that pass the WHERE clause
Selected(db, f, project) ==
    IF ProjectQuery(f, project)
    THEN {row \in JoinRows(db, project) : UserQuery(f, row)}
    ELSE {}

RECURSIVE OrderById(_, _)
OrderById(ids, dir) ==
    IF ids = {} THEN <<>>
    ELSE LET first == IF dir = "ASC" THEN Min(ids) ELSE Max(ids)
         IN <<first>> \o OrderById(ids \ {first}, dir)

\* SELECT COUNT(1) ...: one row with the count, or with GROUP BY projects.id
\* one row for each project of the result, with the number of its joined rows
CountQuery(db, f) ==
    IF HasUserFilter(f)
    THEN LET groups == {project \in db.projects : Selected(db, f, project) # {}}
             ids == OrderById({project.id : project \in groups}, "ASC")
         IN [k \in DOMAIN ids |->
                [count |-> Cardinality(Selected(db, f,
                    CHOOSE project \in groups : project.id = ids[k]))]]
    ELSE <<[count |-> Cardinality({project \in db.projects : ProjectQuery(f, project)})]>>

\* let count = fcount.length; if (fcount.length === 1) count = fcount[0].count
CountOf(fcount) == IF Len(fcount) = 1 THEN fcount[1].count ELSE Len(fcount)

\* LIMIT :limit OFFSET :offset
LimitOffset(list, limit, offset) ==
    SubSeq(list, offset + 1, IF offset + limit < Len(list) THEN offset + limit ELSE Len(list))

\* SELECT attributes ... ORDER BY ... LIMIT :limit OFFSET :offset
RowsQuery(db, parameters) ==
    LET f == parameters.filters
        hit == IF HasUserFilter(f)
               THEN {project \in db.projects : Selected(db, f, project) # {}}
               ELSE {project \in db.projects : ProjectQuery(f, project)}
    IN LimitOffset(OrderById({project.id : project \in hit}, parameters.order),
                   parameters.limit, parameters.offset)

searchText(db, parameters) ==
    [rows |-> RowsQuery(db, parameters),
     count |-> CountOf(CountQuery(db, parameters.filters))]

SearchFilters ==
    [id : {NoFilter, Filter({}), Filter({1})},
     status : {NoFilter, Filter({"active"})},
     type : {NoFilter, Filter({"app"})},
     keyword : {NoFilter, Filter({"alpha"})},
     user : {[has |-> FALSE, userId |-> "null", email |-> "null"],
             [has |-> TRUE, userId |-> "u1", email |-> "e1"]}]

SearchParameters ==
    [filters : SearchFilters, order : {"ASC", "DESC"}, limit : {1, 2}, offset : {0, 1}]

Databases ==
    {[projects |-> ProjectRows, members |-> ms, invites |-> is] :
        ms \in {S \in SUBSET MemberRows : Cardinality(S) <= MaxMembers},
        is \in {S \in SUBSET InviteRows : Cardinality(S) <= MaxInvites}}

\* Project.searchText(parameters, log) is called
SearchText ==
    /\ search.pc = "called"
    /\ search' = [search EXCEPT !.pc = "done",
                                !.result = searchText(search.db, search.parameters)]
    /\ UNCHANGED <<routeVars, permVars>>

InitSearch ==
    /\ InitIdleRoutes
    /\ user = NoCaller /\ granted = NotChecked /\ defaultRole = "unresolved"
    /\ \E db \in Databases, parameters \in SearchParameters :
          search = [pc |-> "called", db |-> db, parameters |-> parameters,
                    result |-> [rows |-> <<>>, count |-> 0]]

NextSearch == SearchText

SpecSearch == InitSearch /\ [][NextSearch]_vars

\* the projects that match all supplied filters
Matching(db, f) ==
    {project \in db.projects :
        /\ ProjectQuery(f, project)
        /\ HasUserFilter(f) =>
              \/ \E m \in db.members :
                    m.projectId = project.id /\ m.userId = f.user.userId
              \/ \E i \in db.invites :
                    /\ i.projectId = project.id
                    /\ \/ i.userId # "null" /\ i.userId = f.user.userId
                       \/ i.email # "null" /\ i.email = f.user.email}

\* the rows are at most limit many and each is a matching project
C9_RowsMatch ==
    search.pc = "done" =>
        /\ Len(search.result.rows) <= search.parameters.limit
        /\ \A k \in DOMAIN search.result.rows :
              search.result.rows[k] \in
                  {project.id : project \in Matching(search.db, search.parameters.filters)}

\* the count is right unless the membership filter finds exactly one project
C9_CountUnlessOneGroup ==
    (search.pc = "done" /\
        ~(HasUserFilter(search.parameters.filters) /\
            Cardinality(Matching(search.db, search.parameters.filters)) = 1)) =>
        search.result.count = Cardinality(Matching(search.db, search.parameters.filters))

\* C9: searchText returns the rows and the count; the count is the number of
\* distinct projects matching all supplied filters, whatever limit and offset
\* are, also when the membership filter joins a project to several rows and
\* when exactly one project matches; the rows are at most limit many and each
\* is a matching project.
C9_SearchCount ==
    search.pc = "done" =>
        /\ search.result.count =
              Cardinality(Matching(search.db, search.parameters.filters))
        /\ C9_RowsMatch

(***************************************************************************)
(* Failing database steps and the transaction around the handlers.         *)
(***************************************************************************)
\* the promise the transaction callback returns: the chain ends in
\* .catch(next) inside the callback, so a rejection of any step is caught
\* there and the returned promise resolves
CallbackSettles(rejected) == "resolved"

\* models.sequelize.transaction(callback): the writes are committed when the
\* callback's promise resolves and rolled back when it rejects
AfterTransaction(outcome, current, before) ==
    IF outcome = "resolved" THEN current ELSE before

\* the database call of the handler's current step rejects: the remaining
\* then-steps are skipped and catch(next) hands the error to the error middleware
DbFails(p) ==
    /\ req[p].route \in Routes
    /\ req[p].stage \in 1..Len(Chain(req[p]))
    /\ Chain(req[p])[req[p].stage] = "handler"
    /\ req[p].pc \in DbOps
    /\ LET r == Step(req[p], req[p].pc)
           outcome == CallbackSettles(TRUE)
       IN /\ req' = [req EXCEPT ![p] = Fail(r, 500)]
          /\ forms' = AfterTransaction(outcome, forms, r.pre.forms)
          /\ planConfigs' = AfterTransaction(outcome, planConfigs, r.pre.planConfigs)
    /\ UNCHANGED <<nreq, MAX_REVISION_NUMBER, permVars, search, shell>>

NextFault == \E p \in SeqProcs : Serve(p) \/ DbFails(p)

\* requests served one at a time, with database steps that may fail
SpecFault == Init /\ [][NextFault]_vars

\* C11: when a database step of a request fails, the error is passed to the
\* error middleware and the persisted rows are those from before the request,
\* also when an earlier step of the request had already written.
C11_FailedRequestRolledBack ==
    \A p \in Procs :
        (req[p].pc = "done" /\ req[p].resp.status = 500
            /\ Has(req[p], {"update", "deleteOldestRevision"})) =>
            /\ req[p].resp.via = "next"
            /\ forms = req[p].pre.forms
            /\ planConfigs = req[p].pre.planConfigs

(***************************************************************************)
(* Concurrent revision-creation requests for one (key, version).           *)
(***************************************************************************)
\* the (key, version) the concurrent requests address
SharedKey == "k1"
SharedVersion == 1

\* a permitted, valid revision-creation request for the shared (key, version)
BeginRevisionCreate(p) ==
    \E userId \in Users :
        Accept(p, "planConfigRevisionCreate", SharedKey, SharedVersion,
               userId, Policies, "ph1")

\* node runs one callback at a time, and the callbacks of the requests in
\* flight interleave at every asynchronous step of their chains
ServeRevisionCreate(p) ==
    \/ BeginRevisionCreate(p)
    \/ Validate(p)
    \/ Permissions(p)
    \/ PlanConfigFindAll(p)
    \/ PlanConfigDeleteOldest(p)
    \/ PlanConfigCreate(p)
    \/ PlanConfigRespond(p)

NextConc == \E p \in Procs : ServeRevisionCreate(p)

SpecConc == Init /\ [][NextConc]_vars

AllCompleted == \A p \in Procs : req[p].pc \in {"idle", "done"}

\* C12: under any interleaving of concurrent revision-creation requests for
\* one (key, version), no two live rows of that (key, version) have the same
\* revision number.
C12_LiveRevisionsDistinct ==
    \A a, b \in FindAll(planConfigs, SharedKey, SharedVersion) :
        a.revision = b.revision => a = b

\* C13: under any interleaving of concurrent revision-creation requests for
\* one (key, version), once all requests have completed the number of live
\* revisions of that (key, version) is at most MAX_REVISION_NUMBER.
C13_BoundedOnceCompleted ==
    (AllCompleted /\ nreq > 0) =>
        Cardinality(FindAll(planConfigs, SharedKey, SharedVersion))
            <= MAX_REVISION_NUMBER

(***************************************************************************)
(* The endpoints the application registers itself, ahead of the router.    *)
(***************************************************************************)
AppRoutes == {"projectsIndex", "projectsEslog"}

\* req.query.q when the query string carries no q
NoQuery == "undefined"
\* the values of req.query.q
Queries == {"id", "env", NoQuery}

\* a GET request arrives at one of the two paths; the caller may carry no token
AppAccept(p) ==
    /\ req[p].pc \in {"idle", "done"}
    /\ nreq < MaxRequests
    /\ \E route \in AppRoutes, userId \in Users \cup {NoUser},
          grants \in {{}, Policies} :
       \E q \in (IF route = "projectsEslog" THEN Queries ELSE {NoQuery}) :
          req' = [req EXCEPT ![p] =
                     [IdleReq EXCEPT !.route = route, !.q = q,
                         !.userId = userId, !.grants = grants, !.stage = 1,
                         !.pc = "exec",
                         !.pre = [forms |-> forms, planConfigs |-> planConfigs]]]
    /\ nreq' = nreq + 1
    /\ UNCHANGED <<forms, planConfigs, MAX_REVISION_NUMBER, permVars, search, shell>>

\* exec('npm run sync:es', callback)
ProjectsIndexSync(p) ==
    /\ InHandler(p, "projectsIndex", "exec")
    /\ shell' = Append(shell, "npm run sync:es")
    /\ req' = [req EXCEPT ![p] = [Step(@, "exec") EXCEPT !.pc = "exec2"]]
    /\ UNCHANGED <<forms, planConfigs, nreq, MAX_REVISION_NUMBER, permVars, search>>

\* exec('npm run migrate:es', callback), in the callback of the first exec
ProjectsIndexMigrate(p) ==
    /\ InHandler(p, "projectsIndex", "exec2")
    /\ shell' = Append(shell, "npm run migrate:es")
    /\ req' = [req EXCEPT ![p] = [Step(@, "exec") EXCEPT !.pc = "send"]]
    /\ UNCHANGED <<forms, planConfigs, nreq, MAX_REVISION_NUMBER, permVars, search>>

\* exec(req.query.q, callback): exec throws a TypeError for a command that is
\* not a string, and express passes the thrown error to the error middleware
ProjectsEslog(p) ==
    /\ InHandler(p, "projectsEslog", "exec")
    /\ IF req[p].q = NoQuery
       THEN /\ req' = [req EXCEPT ![p] = Fail(@, 500)]
            /\ UNCHANGED shell
       ELSE /\ shell' = Append(shell, req[p].q)
            /\ req' = [req EXCEPT ![p] = [Step(@, "exec") EXCEPT !.pc = "send"]]
    /\ UNCHANGED <<forms, planConfigs, nreq, MAX_REVISION_NUMBER, permVars, search>>

\* res.send({ ... }) in the callback of the last exec
AppSend(p) ==
    /\ req[p].route \in AppRoutes
    /\ req[p].pc = "send"
    /\ req' = [req EXCEPT ![p] =
                  [Step(@, "send") EXCEPT !.resp = Res(200, 0), !.pc = "done"]]
    /\ UNCHANGED <<forms, planConfigs, nreq, MAX_REVISION_NUMBER, permVars, search, shell>>

ServeApp(p) ==
    \/ AppAccept(p)
    \/ ProjectsIndexSync(p)
    \/ ProjectsIndexMigrate(p)
    \/ ProjectsEslog(p)
    \/ AppSend(p)

\* every endpoint of the application: its own two and those of the router
NextApp == \E p \in SeqProcs : ServeApp(p) \/ Serve(p)

SpecApp == Init /\ [][NextApp]_vars

\* the steps of a request that write to the database or run a command
SideEffects == {"update", "destroy", "deleteOldestRevision", "create", "exec"}

\* the request passed a permission check before the i-th step of its trace
PassedCheckBefore(r, i) ==
    \E j \in 1..(i - 1) : r.trace[j] \in Policies /\ r.trace[j] \in r.grants

\* C14: no request performs a side effect (a database write or the execution
\* of a shell command) without having first passed a permission check.
C14_SideEffectsBehindPermissions ==
    \A p \in Procs : \A i \in 1..Len(req[p].trace) :
        req[p].trace[i] \in SideEffects => PassedCheckBefore(req[p], i)

====
